---- MODULE Spec2Model ----
(***************************************************************************)
(* Model of the TEMPer telemetry run: main() of main.py with the modules   *)
(* it calls (system_info, location_info, temper_reader, json_builder,      *)
(* db_connection).  One behaviour is one run of main() against an          *)
(* environment (configuration files, attached devices, database) whose     *)
(* answers are chosen nondeterministically.                                *)
(*                                                                         *)
(* Python values are modelled as tagged records: t is the Python type,     *)
(* v the value of a str, n the value of a number.  Temperatures are        *)
(* counted in thousandths of a degree.                                     *)
(***************************************************************************)
EXTENDS Integers, Sequences, FiniteSets, TLC

VARIABLES
    pc,            \* position of the run inside main() / insert_into_db()
    cfgFile,       \* config/config.json as found on disk
    credsFile,     \* config/credenciales.json as found on disk
    system,        \* main(): system
    location,      \* main(): location
    offset,        \* main(): offset
    numDevices,    \* get_medicion(): len(devices)
    device,        \* get_medicion(): the device of the current iteration
    output,        \* get_medicion(): output
    mediciones,    \* main(): mediciones
    k,             \* main(): index of `sensor` in mediciones (1-based)
    payload,       \* main(): payload
    connOpen,      \* number of MariaDB connections currently open
    cursorOpen,    \* number of cursors currently open
    everConnected, \* a connection has been opened during the run
    committed,     \* the current insert_into_db call has committed
    insertResult,  \* outcome of the latest insert_into_db call
    attempts,      \* indices of mediciones for which insert_into_db was called
    failed,        \* indices whose delivery failed (returned False or raised)
    log,           \* entries written through `logger`
    calls,         \* number of calls of the acquisition entry points
    lastExc,       \* exception that ended the try block of main(), if any
    propagated,    \* an exception left main()
    metaResult     \* result of a stand-alone call of get_device_metadata

vars == <<pc, cfgFile, credsFile, system, location, offset, numDevices, device,
          output, mediciones, k, payload, connOpen, cursorOpen, everConnected,
          committed, insertResult, attempts, failed, log, calls, lastExc,
          propagated, metaResult>>

\* Largest number of devices TemperHandler().get_devices() returns.
MaxDevices == 3

-----------------------------------------------------------------------------
(* Python values *)

None == [t |-> "None", v |-> "", n |-> 0]
Str(s) == [t |-> "str", v |-> s, n |-> 0]
Num(x) == [t |-> "num", v |-> "", n |-> x]

NoExc == "none"

\* Result of a call: a value, or the exception it raised.
Ret(x) == [exc |-> NoExc, val |-> x]
Raise(e) == [exc |-> e, val |-> None]

\* The exception classes that are subclasses of Exception.
ExceptionClasses ==
    {"FileNotFoundError", "JSONDecodeError", "KeyError", "ValueError",
     "TypeError", "USBError", "mariadb.Error"}

\* dict.get(key, default)
DictGet(d, key, default) == IF key \in DOMAIN d THEN d[key] ELSE default

\* truthiness of a str-or-None value
Truthy(x) == x.t = "str" /\ x.v # ""

\* IsEmptyList with the test for the empty list lost
IsEmptyList_NeverEmpty(l) == FALSE

\* `not mediciones`
IsEmptyList(l) == Len(l) = 0

HexDigits == <<"0", "1", "2", "3", "4", "5", "6", "7",
               "8", "9", "a", "b", "c", "d", "e", "f">>

RECURSIVE HexBody(_)
HexBody(x) == IF x < 16 THEN HexDigits[x + 1]
              ELSE HexBody(x \div 16) \o HexDigits[(x % 16) + 1]

\* hex(x) of a non-negative int
hex(x) == "0x" \o HexBody(x)

\* round(x, 2) of a value in thousandths: nearest hundredth, ties to even
round2(x) ==
    LET q == x \div 10
        r == x % 10
    IN  IF r < 5 THEN q * 10
        ELSE IF r > 5 THEN (q + 1) * 10
        ELSE IF q % 2 = 0 THEN q * 10 ELSE (q + 1) * 10

-----------------------------------------------------------------------------
(* module/system_info.py *)

get_hostname == Str("servidor1")

\* netUp: the UDP socket towards 8.8.8.8 could be connected
get_ip(netUp) == IF netUp THEN Str("192.168.0.14") ELSE None

\* source: "file" (/etc/machine-id readable), "node" (uuid.getnode() answers),
\* "none" (both fail)
get_machine_id(source) ==
    CASE source = "file" -> Str("a3f87b94eaf34936bd2f35c12d5be901")
      [] source = "node" -> Str("190070690681122")
      [] OTHER -> None

MachineIdSources == {"file", "node", "none"}

get_system_info(use_dynamic_ip, netUp, source) ==
    [hostname |-> get_hostname,
     ip_maquina |-> IF use_dynamic_ip THEN get_ip(netUp) ELSE None,
     id_maquina |-> get_machine_id(source)]

-----------------------------------------------------------------------------
(* module/location_info.py *)

\* A JSON file on disk: exists, json (it parses), data (the parsed object).
File(exists, json, data) == [exists |-> exists, json |-> json, data |-> data]

IsFloatLiteral(s) == s \in {"-6.14", "0.5"}

ParseFloat(s) == IF s = "-6.14" THEN 0 - 6140 ELSE 500

\* float(x)
float(x) ==
    CASE x.t = "num" -> Ret(x.n)
      [] x.t = "str" -> IF IsFloatLiteral(x.v) THEN Ret(ParseFloat(x.v))
                        ELSE Raise("ValueError")
      [] OTHER -> Raise("TypeError")

required_keys == <<"ubicacion", "cpd", "sala", "offset_celsius">>

MissingKeys(data) ==
    {i \in 1..Len(required_keys) : required_keys[i] \notin DOMAIN data}

\* get_location_data checking only the key it reads itself
get_location_data_OffsetKeyOnly(file) ==
    IF ~file.exists THEN Raise("FileNotFoundError")
    ELSE IF ~file.json THEN Raise("JSONDecodeError")
    ELSE IF "offset_celsius" \notin DOMAIN file.data THEN Raise("KeyError")
    ELSE LET f == float(file.data["offset_celsius"])
         IN  IF f.exc \in {"TypeError", "ValueError"} THEN Raise("ValueError")
             ELSE Ret([file.data EXCEPT !["offset_celsius"] = Num(f.val)])

get_location_data(file) ==
    IF ~file.exists THEN Raise("FileNotFoundError")
    ELSE IF ~file.json THEN Raise("JSONDecodeError")
    ELSE IF MissingKeys(file.data) # {} THEN Raise("KeyError")
    ELSE LET f == float(file.data["offset_celsius"])
         IN  IF f.exc \in {"TypeError", "ValueError"} THEN Raise("ValueError")
             ELSE Ret([file.data EXCEPT !["offset_celsius"] = Num(f.val)])

\* d[key]
GetItem(d, key) == IF key \in DOMAIN d THEN Ret(d[key]) ELSE Raise("KeyError")

GoodConfig ==
    [ubicacion |-> Str("Madrid"), cpd |-> Str("CPD1"), sala |-> Str("Sala A"),
     offset_celsius |-> Num(0 - 6140)]

Without(d, key) == [x \in (DOMAIN d) \ {key} |-> d[x]]

NoData == [x \in {} |-> None]

\* The contents config/config.json can have.
ConfigFiles ==
    {File(TRUE, TRUE, GoodConfig),
     File(TRUE, TRUE, [GoodConfig EXCEPT !.offset_celsius = Str("0.5")]),
     File(TRUE, TRUE, [GoodConfig EXCEPT !.offset_celsius = Str("frio")]),
     File(TRUE, TRUE, [GoodConfig EXCEPT !.offset_celsius = None]),
     File(FALSE, FALSE, NoData),
     File(TRUE, FALSE, NoData)}
    \cup {File(TRUE, TRUE, Without(GoodConfig, required_keys[i])) :
            i \in 1..Len(required_keys)}

-----------------------------------------------------------------------------
(* module/temper_reader.py *)

\* What reading an attribute or a string descriptor of a device gives besides
\* a value: the read raises, or the attribute does not exist.
Raises == [t |-> "raise", v |-> "", n |-> 0]
Absent == [t |-> "absent", v |-> "", n |-> 0]

\* usb.util.get_string(...) inside its own try/except
get_string_or_none(field) == IF field.t \in {"raise", "absent"} THEN None ELSE field

WholeObjectFallback ==
    [vendor_id |-> None, product_id |-> None, manufacturer |-> None,
     product |-> None, serial_number |-> Str("Desconocido")]

get_device_metadata(dev) ==
    IF ~dev.hasDevice \/ dev.idVendor.t = "absent" THEN Ret(WholeObjectFallback)
    ELSE IF dev.idVendor.t # "num" THEN Raise("TypeError")
    ELSE IF dev.idProduct.t = "absent" THEN Ret(WholeObjectFallback)
    ELSE IF dev.idProduct.t # "num" THEN Raise("TypeError")
    ELSE Ret([vendor_id |-> Str(hex(dev.idVendor.n)),
              product_id |-> Str(hex(dev.idProduct.n)),
              manufacturer |-> get_string_or_none(dev.manufacturer),
              product |-> get_string_or_none(dev.product),
              serial_number |->
                  IF dev.serial.t \in {"raise", "absent"} THEN Str("Desconocido")
                  ELSE IF Truthy(dev.serial) THEN dev.serial
                  ELSE Str("Desconocido")])

\* device.get_temperature()
get_temperature(dev) ==
    IF dev.temperature.t = "num" THEN Ret(dev.temperature.n) ELSE Raise("USBError")

\* MedicionStep with a device that cannot be read skipped
MedicionStep_SkipFailed(dev, out, offset_celsius) ==
    LET m == get_device_metadata(dev)
        t == get_temperature(dev)
    IN  IF m.exc # NoExc \/ t.exc # NoExc
        THEN [exc |-> NoExc, out |-> out, read |-> m.exc = NoExc]
        ELSE [exc |-> NoExc,
              out |-> Append(out, [metadata |-> m.val,
                                   temperature_c |-> t.val + offset_celsius]),
              read |-> TRUE]

\* One iteration of the loop of get_medicion: the new value of `output`, or
\* the exception that leaves get_medicion.  read: get_temperature was called.
MedicionStep(dev, out, offset_celsius) ==
    LET m == get_device_metadata(dev)
        t == get_temperature(dev)
    IN  IF m.exc # NoExc THEN [exc |-> m.exc, out |-> out, read |-> FALSE]
        ELSE IF t.exc # NoExc THEN [exc |-> t.exc, out |-> out, read |-> TRUE]
        ELSE [exc |-> NoExc,
              out |-> Append(out, [metadata |-> m.val,
                                   temperature_c |-> t.val + offset_celsius]),
              read |-> TRUE]

Nominal ==
    [hasDevice |-> TRUE, idVendor |-> Num(16701), idProduct |-> Num(8455),
     manufacturer |-> Str("RDing"), product |-> Str("TEMPer Sensor"),
     serial |-> Str("A1B2C3D4"), temperature |-> Num(28512)]

\* `device` before the first iteration
NoDevice == [hasDevice |-> FALSE, idVendor |-> Absent, idProduct |-> Absent,
             manufacturer |-> Absent, product |-> Absent, serial |-> Absent,
             temperature |-> Absent]

\* The devices a run of main() meets.
MainDevices ==
    {Nominal,
     [Nominal EXCEPT !.hasDevice = FALSE, !.temperature = Num(20005)],
     [Nominal EXCEPT !.product = Raises],
     [Nominal EXCEPT !.idVendor = None],
     [Nominal EXCEPT !.temperature = Raises]}

\* The devices get_device_metadata is checked on.
DeviceSpace ==
    [hasDevice : BOOLEAN,
     idVendor : {Num(16701), None, Absent},
     idProduct : {Num(8455), None, Absent},
     manufacturer : {Str("RDing"), None, Raises},
     product : {Str("TEMPer Sensor"), None, Raises},
     serial : {Str("A1B2C3D4"), Str(""), None, Raises},
     temperature : {Num(28512)}]

-----------------------------------------------------------------------------
(* module/db_connection.py *)

load_credentials(file) ==
    IF ~file.exists THEN Raise("FileNotFoundError")
    ELSE IF ~file.json THEN Raise("JSONDecodeError")
    ELSE GetItem(file.data, "database")

CredentialKeys == {"host", "port", "user", "password", "database"}

\* get_db_connection answering None for every error, the credentials included
get_db_connection_CatchAll(file, dbAnswer) ==
    LET creds == load_credentials(file)
    IN  IF creds.exc # NoExc THEN Ret(None)
        ELSE IF CredentialKeys \ DOMAIN creds.val # {} THEN Ret(None)
        ELSE IF dbAnswer = "ok" THEN Ret(Str("conn"))
        ELSE Ret(None)

\* dbAnswer: what mariadb.connect does, "ok" or "error" (mariadb.Error).
\* The value returned is "conn" for a connection, "None" for None.
get_db_connection(file, dbAnswer) ==
    LET creds == load_credentials(file)
    IN  IF creds.exc # NoExc THEN Raise(creds.exc)
        ELSE IF CredentialKeys \ DOMAIN creds.val # {} THEN Raise("KeyError")
        ELSE IF dbAnswer = "ok" THEN Ret(Str("conn"))
        ELSE Ret(None)

GoodCredentials ==
    [host |-> Str("servidor"), port |-> Num(3306), user |-> Str("usuario"),
     password |-> Str("pass"), database |-> Str("BBDD")]

\* The contents config/credenciales.json can have.
CredentialFiles ==
    {File(TRUE, TRUE, [database |-> GoodCredentials]),
     File(TRUE, TRUE, [database |-> Without(GoodCredentials, "host")]),
     File(TRUE, TRUE, [db |-> GoodCredentials]),
     File(FALSE, FALSE, NoData),
     File(TRUE, FALSE, NoData)}

DbAnswers == {"ok", "error"}

-----------------------------------------------------------------------------
(* main.py *)

Entry(level, msg) == [level |-> level, msg |-> msg]

MsgNoSensors == "No se detectaron sensores TEMPer."
MsgPayload == "payload"
MsgInserted == "Payload insertado en DB"
MsgInsertError == "Error al insertar en DB"
MsgReadError == "Error al leer sensores"

\* The payload built for one element of mediciones.
BuildPayload(sensor, sys, loc) ==
    [fecha_hora |-> Str("2025-11-15 12:00:00"),
     nombre_sensor |-> DictGet(sensor.metadata, "product", Str("Desconocido")),
     numero_serie |-> DictGet(sensor.metadata, "serial_number", None),
     ubicacion |-> loc["ubicacion"],
     hostname_maquina |-> sys["hostname"],
     ip_maquina |-> sys["ip_maquina"],
     id_maquina |-> sys["id_maquina"],
     temperatura |-> Num(round2(sensor.temperature_c)),
     humedad |-> None,
     bateria |-> None,
     cpd |-> loc["cpd"],
     sala |-> loc["sala"]]

NoPayload ==
    [fecha_hora |-> None, nombre_sensor |-> None, numero_serie |-> None,
     ubicacion |-> None, hostname_maquina |-> None, ip_maquina |-> None,
     id_maquina |-> None, temperatura |-> None, humedad |-> None,
     bateria |-> None, cpd |-> None, sala |-> None]

\* MainExcept catching the configuration errors only
MainExcept_ConfigErrorsOnly(e) ==
    /\ lastExc' = e
    /\ pc' = "done"
    /\ IF e \in {"FileNotFoundError", "JSONDecodeError", "KeyError", "ValueError"}
       THEN /\ log' = Append(log, Entry("ERROR", MsgReadError))
            /\ propagated' = FALSE
       ELSE /\ log' = log
            /\ propagated' = TRUE

\* `except Exception as e` of main(): exception e left the try block.
MainExcept(e) ==
    /\ lastExc' = e
    /\ pc' = "done"
    /\ IF e \in ExceptionClasses
       THEN /\ log' = Append(log, Entry("ERROR", MsgReadError))
            /\ propagated' = FALSE
       ELSE /\ log' = log
            /\ propagated' = TRUE

Init ==
    /\ pc = "start"
    /\ cfgFile \in ConfigFiles
    /\ credsFile \in CredentialFiles
    /\ system = [hostname |-> None, ip_maquina |-> None, id_maquina |-> None]
    /\ location = NoData
    /\ offset = 0
    /\ numDevices = 0
    /\ device = NoDevice
    /\ output = <<>>
    /\ mediciones = <<>>
    /\ k = 0
    /\ payload = NoPayload
    /\ connOpen = 0
    /\ cursorOpen = 0
    /\ everConnected = FALSE
    /\ committed = FALSE
    /\ insertResult = "none"
    /\ attempts = <<>>
    /\ failed = <<>>
    /\ log = <<>>
    /\ calls = [get_medicion |-> 0, get_devices |-> 0, get_temperature |-> 0,
                returned |-> 0]
    /\ lastExc = NoExc
    /\ propagated = FALSE
    /\ metaResult = Ret(WholeObjectFallback)

EnvVars == <<cfgFile, credsFile, metaResult>>
AcqVars == <<numDevices, device, output, mediciones, calls>>
DbVars == <<connOpen, cursorOpen, everConnected, committed, insertResult,
            attempts, failed>>

\* main.py line 38
GetSystemInfo ==
    /\ pc = "start"
    /\ \E netUp \in BOOLEAN, source \in MachineIdSources :
         system' = get_system_info(TRUE, netUp, source)
    /\ pc' = "location"
    /\ UNCHANGED <<EnvVars, AcqVars, DbVars, location, offset, k, payload, log,
                   lastExc, propagated>>

\* main.py lines 41-42
GetLocationData ==
    /\ pc = "location"
    /\ LET r == get_location_data(cfgFile)
           o == GetItem(r.val, "offset_celsius")
       IN  IF r.exc # NoExc
           THEN MainExcept(r.exc) /\ UNCHANGED <<location, offset>>
           ELSE IF o.exc # NoExc
           THEN MainExcept(o.exc) /\ location' = r.val /\ UNCHANGED offset
           ELSE /\ location' = r.val
                /\ offset' = o.val.n
                /\ pc' = "acquire"
                /\ UNCHANGED <<log, lastExc, propagated>>
    /\ UNCHANGED <<EnvVars, AcqVars, DbVars, system, k, payload>>

\* main.py line 45, temper_reader.py lines 129-132: the call of get_medicion up
\* to the enumeration of the devices
GetDevices ==
    /\ pc = "acquire"
    /\ \E usbOk \in BOOLEAN :
         IF usbOk
         THEN /\ \E n \in 0..MaxDevices : numDevices' = n
              /\ output' = <<>>
              /\ calls' = [calls EXCEPT !.get_medicion = @ + 1,
                                        !.get_devices = @ + 1]
              /\ pc' = "reading"
              /\ UNCHANGED <<log, lastExc, propagated>>
         ELSE /\ calls' = [calls EXCEPT !.get_medicion = @ + 1]
              /\ MainExcept("USBError")
              /\ UNCHANGED <<numDevices, output>>
    /\ UNCHANGED <<EnvVars, DbVars, device, mediciones, system, location, offset,
                   k, payload>>

\* temper_reader.py lines 134-139: one iteration of the loop of get_medicion
ReadDevice ==
    /\ pc = "reading"
    /\ Len(output) < numDevices
    /\ \E dev \in MainDevices :
         LET s == MedicionStep(dev, output, offset)
         IN  /\ device' = dev
             /\ calls' = [calls EXCEPT !.get_temperature =
                                           IF s.read THEN @ + 1 ELSE @]
             /\ output' = s.out
             /\ IF s.exc # NoExc
                THEN MainExcept(s.exc)
                ELSE UNCHANGED <<pc, log, lastExc, propagated>>
    /\ UNCHANGED <<EnvVars, DbVars, numDevices, mediciones, system, location,
                   offset, k, payload>>

\* temper_reader.py line 141, main.py lines 45-50: get_medicion returns and
\* main() tests the list
ReturnMediciones ==
    /\ pc = "reading"
    /\ Len(output) = numDevices
    /\ mediciones' = output
    /\ calls' = [calls EXCEPT !.returned = @ + 1]
    /\ IF IsEmptyList(output)
       THEN /\ log' = Append(log, Entry("WARNING", MsgNoSensors))
            /\ pc' = "done"
            /\ k' = k
       ELSE \* the for loop: its first iteration, if the list has one
            /\ log' = log
            /\ (IF Len(output) > 0 THEN pc' = "assemble" ELSE pc' = "done")
            /\ k' = 1
    /\ UNCHANGED <<EnvVars, DbVars, numDevices, device, output, system, location,
                   offset, payload, lastExc, propagated>>

\* main.py lines 52-74: the payload of the k-th reading is built and logged
Assemble ==
    /\ pc = "assemble"
    /\ payload' = BuildPayload(mediciones[k], system, location)
    /\ log' = Append(log, Entry("INFO", MsgPayload))
    /\ pc' = "insert"
    /\ UNCHANGED <<EnvVars, AcqVars, DbVars, system, location, offset, k,
                   lastExc, propagated>>

\* main.py line 76, json_builder.py lines 57-59
InsGetConnection ==
    /\ pc = "insert"
    /\ attempts' = Append(attempts, k)
    /\ committed' = FALSE
    /\ \E answer \in DbAnswers :
         LET c == get_db_connection(credsFile, answer)
         IN  IF c.exc # NoExc
             THEN /\ insertResult' = "raised"
                  /\ failed' = Append(failed, k)
                  /\ MainExcept(c.exc)
                  /\ UNCHANGED <<connOpen, everConnected>>
             ELSE IF c.val = None
             THEN /\ insertResult' = "False"
                  /\ failed' = Append(failed, k)
                  /\ pc' = "outcome"
                  /\ UNCHANGED <<connOpen, everConnected, log, lastExc, propagated>>
             ELSE /\ insertResult' = "running"
                  /\ connOpen' = connOpen + 1
                  /\ everConnected' = TRUE
                  /\ pc' = "cursor"
                  /\ UNCHANGED <<failed, log, lastExc, propagated>>
    /\ UNCHANGED <<EnvVars, AcqVars, cursorOpen, system, location, offset, k,
                   payload>>

\* json_builder.py line 61: conn.cursor(), outside the try block
InsCursor ==
    /\ pc = "cursor"
    /\ \E answer \in DbAnswers :
         IF answer = "ok"
         THEN /\ cursorOpen' = cursorOpen + 1
              /\ pc' = "execute"
              /\ UNCHANGED <<insertResult, failed, log, lastExc, propagated>>
         ELSE /\ insertResult' = "raised"
              /\ failed' = Append(failed, k)
              /\ MainExcept("mariadb.Error")
              /\ UNCHANGED cursorOpen
    /\ UNCHANGED <<EnvVars, AcqVars, connOpen, everConnected, committed, attempts,
                   system, location, offset, k, payload>>

\* json_builder.py lines 90-92: the finally block
Finally ==
    /\ cursorOpen' = cursorOpen - 1
    /\ connOpen' = connOpen - 1

\* json_builder.py lines 62-83 and, when execute raises, 87-92
InsExecute ==
    /\ pc = "execute"
    /\ \E answer \in DbAnswers :
         IF answer = "ok"
         THEN /\ pc' = "commit"
              /\ UNCHANGED <<insertResult, failed, connOpen, cursorOpen>>
         ELSE /\ insertResult' = "False"
              /\ failed' = Append(failed, k)
              /\ Finally
              /\ pc' = "outcome"
    /\ UNCHANGED <<EnvVars, AcqVars, everConnected, committed, attempts, system,
                   location, offset, k, payload, log, lastExc, propagated>>

\* json_builder.py lines 84-92
InsCommit ==
    /\ pc = "commit"
    /\ \E answer \in DbAnswers :
         IF answer = "ok"
         THEN /\ committed' = TRUE
              /\ insertResult' = "True"
              /\ failed' = failed
         ELSE /\ committed' = FALSE
              /\ insertResult' = "False"
              /\ failed' = Append(failed, k)
    /\ Finally
    /\ pc' = "outcome"
    /\ UNCHANGED <<EnvVars, AcqVars, everConnected, attempts, system, location,
                   offset, k, payload, log, lastExc, propagated>>

\* main.py lines 78-81 and the step of the for loop
LogOutcome ==
    /\ pc = "outcome"
    /\ IF insertResult = "True"
       THEN log' = Append(log, Entry("INFO", MsgInserted))
       ELSE log' = Append(log, Entry("ERROR", MsgInsertError))
    /\ IF k < Len(mediciones)
       THEN k' = k + 1 /\ pc' = "assemble"
       ELSE k' = k /\ pc' = "done"
    /\ UNCHANGED <<EnvVars, AcqVars, DbVars, system, location, offset, payload,
                   lastExc, propagated>>

Next ==
    \/ GetSystemInfo
    \/ GetLocationData
    \/ GetDevices
    \/ ReadDevice
    \/ ReturnMediciones
    \/ Assemble
    \/ InsGetConnection
    \/ InsCursor
    \/ InsExecute
    \/ InsCommit
    \/ LogOutcome

Spec == Init /\ [][Next]_vars

-----------------------------------------------------------------------------
(* get_device_metadata on its own, over every device of DeviceSpace *)

InitMeta ==
    /\ pc = "meta"
    /\ device \in DeviceSpace
    /\ metaResult = Ret(WholeObjectFallback)
    /\ cfgFile = File(FALSE, FALSE, NoData)
    /\ credsFile = File(FALSE, FALSE, NoData)
    /\ system = [hostname |-> None, ip_maquina |-> None, id_maquina |-> None]
    /\ location = NoData
    /\ offset = 0
    /\ numDevices = 0
    /\ output = <<>>
    /\ mediciones = <<>>
    /\ k = 0
    /\ payload = NoPayload
    /\ connOpen = 0
    /\ cursorOpen = 0
    /\ everConnected = FALSE
    /\ committed = FALSE
    /\ insertResult = "none"
    /\ attempts = <<>>
    /\ failed = <<>>
    /\ log = <<>>
    /\ calls = [get_medicion |-> 0, get_devices |-> 0, get_temperature |-> 0,
                returned |-> 0]
    /\ lastExc = NoExc
    /\ propagated = FALSE

\* temper_reader.py lines 58-89
ExtractMetadata ==
    /\ pc = "meta"
    /\ metaResult' = get_device_metadata(device)
    /\ pc' = "meta_done"
    /\ UNCHANGED <<cfgFile, credsFile, AcqVars, DbVars, system, location, offset,
                   k, payload, log, lastExc, propagated>>

NextMeta == ExtractMetadata

SpecMeta == InitMeta /\ [][NextMeta]_vars

-----------------------------------------------------------------------------
(* Properties *)

Count(seq, x) == Cardinality({i \in 1..Len(seq) : seq[i] = x})

Last(seq) == seq[Len(seq)]

\* process exit code once main() has ended
ExitCode == IF propagated THEN 1 ELSE 0

InInsert == pc \in {"cursor", "execute", "commit"}

\* the credentials file is missing or is not JSON
CredsMissingOrMalformed == ~credsFile.exists \/ ~credsFile.json

\* the credentials file gives no usable credentials
CredsUnusable ==
    \/ CredsMissingOrMalformed
    \/ "database" \notin DOMAIN credsFile.data
    \/ CredentialKeys \ DOMAIN credsFile.data["database"] # {}

OffsetNotNumeric(x) == x.t = "None" \/ (x.t = "str" /\ ~IsFloatLiteral(x.v))

\* the location config file is missing, is not JSON, lacks a key or has a
\* non-numeric offset
CfgBad ==
    \/ ~cfgFile.exists
    \/ ~cfgFile.json
    \/ \E i \in 1..Len(required_keys) : required_keys[i] \notin DOMAIN cfgFile.data
    \/ OffsetNotNumeric(cfgFile.data["offset_celsius"])

\* C1: once a run that acquired a non-empty list of readings has ended,
\* insert_into_db was attempted once for every reading, in order, and the log
\* holds one 'Error al insertar en DB' entry per failed delivery.
C1_DeliveryIsolation ==
    (pc = "done" /\ calls.returned = 1 /\ mediciones # <<>>) =>
        /\ attempts = [i \in 1..Len(mediciones) |-> i]
        /\ Count(log, Entry("ERROR", MsgInsertError)) = Len(failed)

\* C2: insert_into_db never raises to its caller, and it returns True only
\* after the commit has succeeded.
C2_InsertNeverRaises ==
    /\ insertResult # "raised"
    /\ insertResult = "True" => committed

C4_ContextFailureIsFatal ==
    CfgBad =>
        /\ calls.get_medicion = 0 /\ calls.get_devices = 0
        /\ calls.get_temperature = 0
        /\ attempts = <<>>
        /\ pc \in {"start", "location", "done"}
        /\ pc = "done" =>
             /\ log = <<Entry("ERROR", MsgReadError)>>
             /\ lastExc # NoExc
             /\ ~propagated

C4_Witness ==
    /\ cfgFile.json
    /\ DOMAIN cfgFile.data = {"ubicacion", "cpd", "sala"}
    /\ pc = "done"
    /\ lastExc = "KeyError"

\* C5: no connection is open outside a call of insert_into_db, and at most one
\* connection is open at any time.
C5_ConnectionScopedToCall ==
    /\ connOpen <= 1
    /\ ~InInsert => connOpen = 0

\* C6: no exception leaves main(): whatever is raised inside it is caught and
\* logged as the last entry of the run, the run cannot get stuck before its end
\* and the exit code is 0.
C6_NoExceptionLeavesMain ==
    /\ ~propagated
    /\ ExitCode = 0
    /\ lastExc # NoExc =>
         /\ pc = "done"
         /\ log # <<>>
         /\ Last(log) = Entry("ERROR", MsgReadError)
         /\ Count(log, Entry("ERROR", MsgReadError)) = 1
    /\ pc # "done" => ENABLED Next

C6_Witness ==
    /\ pc = "done"
    /\ lastExc = "mariadb.Error"
    /\ Len(attempts) >= 2

\* C7: in every assembled record whose reading has no product, the sensor name
\* is the default label.
C7_SensorNameDefault ==
    (pc \in {"insert", "cursor", "execute", "commit", "outcome"}
       /\ mediciones[k].metadata["product"] = None) =>
        payload["nombre_sensor"] = Str("Desconocido")

IdFails(field) == field.t # "num"
StringFails(field) == field.t \in {"raise", "absent"}
StringGood(field) == field.t = "str" /\ field.v # ""

\* the fields of the device whose read fails
FailingFields(dev) ==
    {f \in {"vendor_id"} : IdFails(dev.idVendor)}
    \cup {f \in {"product_id"} : IdFails(dev.idProduct)}
    \cup {f \in {"manufacturer"} : StringFails(dev.manufacturer)}
    \cup {f \in {"product"} : StringFails(dev.product)}
    \cup {f \in {"serial_number"} : StringFails(dev.serial)}

\* what the metadata holds for a field that was read
ValueRead(dev, f) ==
    CASE f = "vendor_id" -> Str(hex(dev.idVendor.n))
      [] f = "product_id" -> Str(hex(dev.idProduct.n))
      [] f = "manufacturer" -> dev.manufacturer
      [] f = "product" -> dev.product
      [] OTHER -> dev.serial

Degraded(f) == IF f = "serial_number" THEN Str("Desconocido") ELSE None

MetadataFields ==
    {"vendor_id", "product_id", "manufacturer", "product", "serial_number"}

\* the device has the descriptor, one field fails and the others hold values
OneFieldFails(dev, f) ==
    /\ dev.hasDevice
    /\ FailingFields(dev) = {f}
    /\ StringFails(dev.manufacturer) \/ StringGood(dev.manufacturer)
    /\ StringFails(dev.product) \/ StringGood(dev.product)
    /\ StringFails(dev.serial) \/ StringGood(dev.serial)

\* C8: when exactly one of the five fields of a device with a descriptor cannot
\* be read, get_device_metadata returns, that field is degraded and every other
\* field holds the value read.
C8_SingleFieldDegradation ==
    \A f \in MetadataFields :
        (pc = "meta_done" /\ OneFieldFails(device, f)) =>
            /\ metaResult.exc = NoExc
            /\ \A g \in MetadataFields :
                 metaResult.val[g] =
                     IF g = f THEN Degraded(g) ELSE ValueRead(device, g)

\* C9: when get_medicion returns the empty list, the run ends with exactly one
\* entry in the log, the warning, without any error and without any call of
\* insert_into_db.
C9_NoSensorsIsAWarning ==
    /\ (pc = "reading" /\ numDevices = 0) => (output = <<>> /\ ENABLED ReturnMediciones)
    /\ (calls.returned = 1 /\ mediciones = <<>>) =>
         /\ pc = "done"
         /\ log = <<Entry("WARNING", MsgNoSensors)>>
         /\ attempts = <<>>
         /\ lastExc = NoExc
         /\ ~propagated

C9_Witness ==
    /\ calls.returned = 1
    /\ numDevices = 0
    /\ mediciones = <<>>
    /\ pc = "done"

\* the temperature read of the device of the current iteration raised
TemperatureReadRaised ==
    /\ device.temperature.t = "raise"
    /\ get_device_metadata(device).exc = NoExc

\* C10: insert_into_db is called only after every enumerated device was read,
\* and a run in which one temperature read raises makes no delivery attempt
\* and ends with a single error entry.
C10_AcquisitionAllOrNothing ==
    /\ attempts # <<>> =>
         /\ calls.returned = 1
         /\ calls.get_temperature = numDevices
         /\ Len(mediciones) = numDevices
    /\ TemperatureReadRaised =>
         /\ pc = "done"
         /\ calls.returned = 0
         /\ attempts = <<>>
         /\ log = <<Entry("ERROR", MsgReadError)>>

C10_Witness ==
    /\ TemperatureReadRaised
    /\ Len(output) >= 2
    /\ pc = "done"

====
